---- MODULE Spec2Model ----
(***************************************************************************)
(* The document pipeline of the ingestion services: the Document Store and *)
(* Chunk Store (shared/database.py), the two RQ queues                     *)
(* (shared/redis_queue.py), the ingestion route, the stage-1 task          *)
(* (process_document_task), the stage-2 task (embed_document_task) and the *)
(* vector index (shared/vector_store.py).                                  *)
(*                                                                         *)
(* A stage execution is one action: the worker takes the job, runs the     *)
(* task to its return or to its except block, and RQ records the job as    *)
(* finished or failed.  A call inside the try block may raise (the faults  *)
(* below); the status write of the except block is taken to succeed.       *)
(* A failed job stays in RQ's failed registry (failure_ttl) and may be     *)
(* put back on its queue.                                                  *)
(*                                                                         *)
(* SpecIngest observes the ingestion route request by request.  SpecCrash  *)
(* and SpecOverlap run the tasks step by step on several workers, with     *)
(* workers that die and with jobs handed out a second time.  SpecChunker   *)
(* is the SemanticChunker alone, character by character; SpecQuery is the  *)
(* query service over any content of the stores, and SpecService runs it   *)
(* beside the pipeline of one upload.                                      *)
(***************************************************************************)
EXTENDS Integers, Sequences, FiniteSets, TLC

VARIABLES
    docs,       \* documents table: document_id -> row, or NoDoc
    files,      \* upload directory: file_path -> content, or Missing
    chunks,     \* chunks table: set of rows
    procQ,      \* processing queue: the job enqueued for each document
    embQ,       \* embedding queue: the job enqueued for each document
    vectors,    \* Weaviate collection: set of objects
    clock,      \* datetime.now(); it moves on with every value stored
    nextId,     \* uuid4 generator: ids handed out so far
    edges,      \* per document, the status changes its UPDATEs have made
    response,   \* the last upload request and the HTTP status it was given
    run,        \* per worker, the job it is executing and where it stands
    chunker,    \* a SemanticChunker and the last chunk_text call made on it
    reply       \* the last query-service request and what it was answered

vars == <<docs, files, chunks, procQ, embQ, vectors, clock, nextId, edges,
          response, run, chunker, reply>>

----------------------------------------------------------------------------
(* Bounds of the model *)

MaxClock == 5       \* timestamps are stored at most this many times
MaxChunks == 2      \* a text splits into at most this many chunks
MaxIds == 4         \* step by step, uuids are handed out up to this many
MaxLen == 5         \* a text given to the chunker is at most this long
MaxSize == 3        \* chunk_size and chunk_overlap are given up to this
MaxCalls == 2       \* chunk_text is called this often on one chunker

DocIds == {"doc_a", "doc_b"}

----------------------------------------------------------------------------
(* Program constants *)

MAX_FILE_SIZE == 52428800
CHUNK_SIZE == 512
CHUNK_OVERLAP == 50
ALLOWED_EXTENSIONS == {".pdf", ".docx"}

UPLOADED == "uploaded"
PROCESSING == "processing"
COMPLETED == "completed"
FAILED == "failed"
DocumentStatus == {UPLOADED, PROCESSING, COMPLETED, FAILED}

----------------------------------------------------------------------------
(* Values *)

\* A nullable column is a set with at most one element: {} is NULL.
Null == {}
Some(v) == {v}

NoDoc == [status |-> "absent"]
NoJob == [status |-> "none"]
Missing == [kind |-> "missing", n |-> 0]
NoResponse == [status |-> 0]
Idle == [pc |-> "idle"]
NoResult == [raised |-> FALSE, error |-> "", chunk_list |-> <<>>]
NoChunker == [state |-> "none", args |-> <<>>, self |-> <<>>, calls |-> 0,
              text |-> <<>>, again |-> FALSE, result |-> NoResult]
NoReply == [op |-> "none"]

\* The worker processes: two on the processing queue, two on the embedding
\* queue.
Workers1 == {"p1", "p2"}
Workers2 == {"e1", "e2"}
Workers == Workers1 \cup Workers2

\* What an upload can hold: a readable file whose text splits into n chunks,
\* a readable file with no text, or bytes that are no PDF/DOCX at all.
Contents ==
    [kind : {"text"}, n : 1..MaxChunks]
        \cup {[kind |-> "blank", n |-> 0], [kind |-> "corrupt", n |-> 0]}

Extensions == {".pdf", ".docx", ".txt"}
FileSizes == {0, 1, MAX_FILE_SIZE + 1}

PathOf(document_id) == <<"uploads", document_id>>
Paths == {PathOf(d) : d \in DocIds}

\* Faults of the calls inside the try blocks.
Faults1 == {"none", "db_status", "db_chunks", "redis"}
Faults2 == {"none", "ollama", "weaviate", "db_status"}
Faults0 == {"none", "disk", "db_insert", "redis"}

----------------------------------------------------------------------------
(* shared/database.py *)

create_document_record(D, metadata) ==
    [D EXCEPT ![metadata.document_id] =
        [document_id |-> metadata.document_id,
         file_path |-> metadata.file_path,
         file_type |-> metadata.file_type,
         file_size |-> metadata.file_size,
         status |-> metadata.status,
         upload_time |-> metadata.upload_time,
         processing_started_time |-> Null,
         processing_completed_time |-> Null,
         error_message |-> Null]]

\* update_document_status with the completion stamp and the error text left
\* out of the UPDATE for completed/failed.
update_document_status_StatusOnly(D, document_id, status, error_message, now) ==
    IF D[document_id] = NoDoc THEN D
    ELSE IF status = PROCESSING THEN
        [D EXCEPT ![document_id].status = status,
                  ![document_id].processing_started_time = Some(now),
                  ![document_id].error_message = error_message]
    ELSE
        [D EXCEPT ![document_id].status = status]

\* An UPDATE without its WHERE clause: every record gets the status.
update_document_status_NoWhere(D, document_id, status, error_message, now) ==
    [d \in DOMAIN D |->
        IF D[d] = NoDoc THEN D[d]
        ELSE IF status = PROCESSING THEN
            [D[d] EXCEPT !.status = status,
                         !.processing_started_time = Some(now),
                         !.error_message = error_message]
        ELSE
            [D[d] EXCEPT !.status = status,
                         !.processing_completed_time = Some(now),
                         !.error_message = error_message]]

\* An UPDATE that leaves the error text alone when it is given none
\* (error_message = COALESCE(?, error_message)).
update_document_status_KeepError(D, document_id, status, error_message, now) ==
    LET text == IF error_message = Null THEN D[document_id].error_message
                ELSE error_message
    IN IF D[document_id] = NoDoc THEN D
       ELSE IF status = PROCESSING THEN
           [D EXCEPT ![document_id].status = status,
                     ![document_id].processing_started_time = Some(now),
                     ![document_id].error_message = text]
       ELSE
           [D EXCEPT ![document_id].status = status,
                     ![document_id].processing_completed_time = Some(now),
                     ![document_id].error_message = text]

\* A status write that records only the end of a document: the write of
\* processing changes nothing.
update_document_status_EndOnly(D, document_id, status, error_message, now) ==
    IF D[document_id] = NoDoc \/ status = PROCESSING THEN D
    ELSE [D EXCEPT ![document_id].status = status,
                   ![document_id].processing_completed_time = Some(now),
                   ![document_id].error_message = error_message]

\* One UPDATE ... WHERE document_id = ?: no row, no change.  The statement
\* sets status and error_message always, and the one timestamp column that
\* the new status selects.
update_document_status(D, document_id, status, error_message, now) ==
    IF D[document_id] = NoDoc THEN D
    ELSE IF status = PROCESSING THEN
        [D EXCEPT ![document_id].status = status,
                  ![document_id].processing_started_time = Some(now),
                  ![document_id].error_message = error_message]
    ELSE IF status \in {COMPLETED, FAILED} THEN
        [D EXCEPT ![document_id].status = status,
                  ![document_id].processing_completed_time = Some(now),
                  ![document_id].error_message = error_message]
    ELSE
        [D EXCEPT ![document_id].status = status,
                  ![document_id].error_message = error_message]

get_document(D, document_id) == D[document_id]

\* The change of status that one UPDATE made on a row, if it made one.
StatusEdge(D, D2, document_id) ==
    IF D[document_id] # NoDoc /\ D2[document_id].status # D[document_id].status
    THEN {<<D[document_id].status, D2[document_id].status>>}
    ELSE {}

\* A connection that commits whatever the block did, raised or not.
get_db_connection_NoRollback(before, after, raised) == after

\* with get_db_connection() as conn: the block's writes are committed when
\* the block returns and rolled back when it raises.
get_db_connection(before, after, raised) ==
    IF raised THEN before ELSE after

\* An executemany that leaves the last row of the list out.
executemany_Truncating(C, rows, failAt) ==
    C \cup {rows[i] : i \in {j \in 1..(Len(rows) - 1) :
                                 failAt = 0 \/ j < failAt}}

\* executemany of plain INSERTs: the rows go in one after the other; failAt
\* is the insert that raises (0: none does), the rows before it are in.
executemany(C, rows, failAt) ==
    C \cup {rows[i] : i \in {j \in 1..Len(rows) : failAt = 0 \/ j < failAt}}

\* An insert that first removes the rows the document already has.
create_chunk_records_Replacing(C, chunk_records, failAt) ==
    get_db_connection(C,
        executemany({c \in C : \A i \in 1..Len(chunk_records) :
                                  c.document_id # chunk_records[i].document_id},
                    chunk_records, failAt),
        failAt # 0)

\* The executemany runs inside one get_db_connection block.
create_chunk_records(C, chunk_records, failAt) ==
    get_db_connection(C, executemany(C, chunk_records, failAt), failAt # 0)

get_document_chunks(C, document_id) ==
    {c \in C : c.document_id = document_id}

----------------------------------------------------------------------------
(* shared/redis_queue.py: queue.enqueue puts a job in RQ's queued state *)

enqueue_processing_job(Q, job_data) ==
    [Q EXCEPT ![job_data.document_id] =
        [status |-> "queued", job_data |-> job_data]]

enqueue_embedding_job(Q, job_data) ==
    [Q EXCEPT ![job_data.document_id] =
        [status |-> "queued", job_data |-> job_data]]

\* A task whose except block does not re-raise: the job ends finished.
JobEnded_Swallowed(Q, document_id, raised) ==
    [Q EXCEPT ![document_id].status = "finished"]

\* What the RQ worker records when the task returns or raises.
JobEnded(Q, document_id, raised) ==
    [Q EXCEPT ![document_id].status = IF raised THEN "failed" ELSE "finished"]

----------------------------------------------------------------------------
(* processing_service/processors *)

\* PDFProcessor / DOCXProcessor .validate_file: the reader opens the file.
validate_file(content) == content.kind # "corrupt"

\* An extract_text that returns the text of a file that holds none.
ExtractRaises_BlankReturned(content) == content.kind = "corrupt"

\* extract_text raises when the reader cannot parse the file or when the
\* joined text is blank; otherwise the text, here its chunk-sized segments.
ExtractRaises(content) == content.kind # "text"
extract_text(content) == [i \in 1..content.n |-> i]

\* len() of a segment: segment i stands for a piece of i characters.
len(segment) == segment

\* SemanticChunker.chunk_text: enumerate(chunks) numbers the pieces from 0
\* and each piece is stored with its length.
chunk_text(text) ==
    [i \in 1..Len(text) |-> [chunk_index |-> i - 1, chunk_text |-> text[i],
                             chunk_size |-> len(text[i])]]

----------------------------------------------------------------------------
(* processing_service/processors/semantic_chunker.py, character by         *)
(* character.  A text is a sequence of one-character strings.  The         *)
(* RecursiveCharacterTextSplitter the class wraps is langchain's; it is    *)
(* written out here as the class configures it: length_function=len,       *)
(* keep_separator=True, is_separator_regex=False, whitespace stripped.     *)

Alphabet == {"a", " ", "."}
Whitespace == {" ", "\n"}

RECURSIVE TextsOfLen(_)
TextsOfLen(n) ==
    IF n = 0 THEN {<<>>}
    ELSE {Append(t, c) : t \in TextsOfLen(n - 1), c \in Alphabet}
Texts == UNION {TextsOfLen(n) : n \in 0..MaxLen}

\* The separators argument, from the paragraph break down to single
\* characters.
Separators ==
    << <<"\n", "\n">>, <<"\n">>, <<".", " ">>, <<"!", " ">>, <<"?", " ">>,
       <<";", " ">>, <<",", " ">>, <<" ">>, <<>> >>

\* str.strip()
RECURSIVE lstrip(_)
lstrip(s) ==
    IF s # <<>> /\ Head(s) \in Whitespace THEN lstrip(Tail(s)) ELSE s
RECURSIVE rstrip(_)
rstrip(s) ==
    IF s # <<>> /\ s[Len(s)] \in Whitespace
    THEN rstrip(SubSeq(s, 1, Len(s) - 1)) ELSE s
strip(s) == rstrip(lstrip(s))

\* "".join(parts)
RECURSIVE join(_)
join(parts) == IF parts = <<>> THEN <<>> ELSE Head(parts) \o join(Tail(parts))

StartsWith(s, prefix) ==
    Len(s) >= Len(prefix) /\ SubSeq(s, 1, Len(prefix)) = prefix

\* re.search(re.escape(separator), text) for a separator that is not empty
Found(separator, text) ==
    \E i \in 1..Len(text) : StartsWith(SubSeq(text, i, Len(text)), separator)

\* re.split: the pieces between the matches of separator, left to right;
\* piece holds the characters read since the last match.
RECURSIVE re_split(_, _, _)
re_split(text, separator, piece) ==
    IF text = <<>> THEN <<piece>>
    ELSE IF StartsWith(text, separator)
    THEN <<piece>> \o re_split(SubSeq(text, Len(separator) + 1, Len(text)),
                               separator, <<>>)
    ELSE re_split(Tail(text), separator, Append(piece, Head(text)))

NotEmpty(s) == s # <<>>

\* _split_text_with_regex with keep_separator=True: each separator goes to
\* the front of the piece after it; list(text) for the empty separator; the
\* empty pieces are dropped.
split_text_with_regex(text, separator) ==
    LET pieces == re_split(text, separator, <<>>)
        splits == IF separator # <<>>
                  THEN [i \in 1..Len(pieces) |->
                           IF i = 1 THEN pieces[i] ELSE separator \o pieces[i]]
                  ELSE [i \in 1..Len(text) |-> <<text[i]>>]
    IN SelectSeq(splits, NotEmpty)

\* _join_docs with the separator "": the stripped text, none when nothing
\* is left of it.
join_docs(parts) ==
    LET text == strip(join(parts)) IN IF text = <<>> THEN <<>> ELSE <<text>>

\* The while loop of _merge_splits: splits leave the front of the running
\* chunk until at most chunk_overlap characters stay and the next split
\* fits.
RECURSIVE drop_overlap(_, _, _)
drop_overlap(self, current_doc, next_len) ==
    LET total == Len(join(current_doc)) IN
    IF total > self.chunk_overlap
          \/ (total + next_len > self.chunk_size /\ total > 0)
    THEN drop_overlap(self, Tail(current_doc), next_len)
    ELSE current_doc

\* _merge_splits: the splits are packed into chunks of at most chunk_size
\* characters.
RECURSIVE merge_splits(_, _, _, _)
merge_splits(self, splits, current_doc, merged) ==
    IF splits = <<>> THEN merged \o join_docs(current_doc)
    ELSE LET d == Head(splits)
             total == Len(join(current_doc))
         IN IF total + Len(d) > self.chunk_size /\ Len(current_doc) > 0
            THEN merge_splits(self, Tail(splits),
                              Append(drop_overlap(self, current_doc, Len(d)),
                                     d),
                              merged \o join_docs(current_doc))
            ELSE merge_splits(self, Tail(splits), Append(current_doc, d),
                              merged)

\* RecursiveCharacterTextSplitter._split_text: split on the first separator
\* the text holds; a split shorter than chunk_size waits to be merged, a
\* longer one is split on the separators that remain, or kept whole when
\* none remains.
RECURSIVE split_text(_, _, _)
RECURSIVE split_each(_, _, _, _, _)
split_each(self, splits, new_separators, good_splits, final_chunks) ==
    LET merged == IF good_splits # <<>>
                  THEN merge_splits(self, good_splits, <<>>, <<>>) ELSE <<>>
    IN IF splits = <<>> THEN final_chunks \o merged
       ELSE LET s == Head(splits) IN
            IF Len(s) < self.chunk_size
            THEN split_each(self, Tail(splits), new_separators,
                            Append(good_splits, s), final_chunks)
            ELSE split_each(self, Tail(splits), new_separators, <<>>,
                            final_chunks \o merged \o
                                (IF new_separators = <<>> THEN <<s>>
                                 ELSE split_text(self, s, new_separators)))
split_text(self, text, separators) ==
    LET found == {i \in 1..Len(separators) :
                     separators[i] = <<>> \/ Found(separators[i], text)}
        first == IF found = {} THEN Len(separators)
                 ELSE CHOOSE i \in found : \A j \in found : i <= j
        separator == separators[first]
        new_separators == IF found = {} \/ separator = <<>> THEN <<>>
                          ELSE SubSeq(separators, first + 1, Len(separators))
    IN split_each(self, split_text_with_regex(text, separator),
                  new_separators, <<>>, <<>>)

\* `value or default`: None and 0 both give the default.
Or(value, default) ==
    IF value = Null \/ value = Some(0) THEN default
    ELSE CHOOSE v \in value : TRUE

Raised(error) == [raised |-> TRUE, error |-> error, chunk_list |-> <<>>]

\* SemanticChunker.__init__: the sizes fall back to the settings, and the
\* text splitter refuses an overlap larger than the chunk size.
SemanticChunker(chunk_size, chunk_overlap) ==
    LET size == Or(chunk_size, CHUNK_SIZE)
        overlap == Or(chunk_overlap, CHUNK_OVERLAP)
    IN [raised |-> overlap > size,
        chunk_size |-> size,
        chunk_overlap |-> overlap,
        separators |-> Separators]

\* A chunk_text that keeps counting where the call before it stopped.
SemanticChunker_chunk_text_Counting(self, text) ==
    IF text = <<>> \/ strip(text) = <<>> THEN Raised("Cannot chunk empty text")
    ELSE LET split_documents == split_text(self, text, self.separators)
             counted == Len(chunker.result.chunk_list)
         IN [raised |-> FALSE, error |-> "",
             chunk_list |->
                 [i \in 1..Len(split_documents) |->
                     [chunk_index |-> counted + i - 1,
                      chunk_text |-> split_documents[i],
                      chunk_size |-> Len(split_documents[i])]]]

\* A chunk_text that numbers the chunks from 1.
SemanticChunker_chunk_text_FromOne(self, text) ==
    IF text = <<>> \/ strip(text) = <<>> THEN Raised("Cannot chunk empty text")
    ELSE LET split_documents == split_text(self, text, self.separators)
         IN [raised |-> FALSE, error |-> "",
             chunk_list |->
                 [i \in 1..Len(split_documents) |->
                     [chunk_index |-> i,
                      chunk_text |-> split_documents[i],
                      chunk_size |-> Len(split_documents[i])]]]

\* SemanticChunker.chunk_text(text): the chunk list, or the error raised.
SemanticChunker_chunk_text(self, text) ==
    IF text = <<>> \/ strip(text) = <<>> THEN Raised("Cannot chunk empty text")
    ELSE LET split_documents == split_text(self, text, self.separators)
             chunk_list ==
                 [i \in 1..Len(split_documents) |->
                     [chunk_index |-> i - 1,
                      chunk_text |-> split_documents[i],
                      chunk_size |-> Len(split_documents[i])]]
         IN IF Len(chunk_list) = 0 THEN Raised("division by zero")
            ELSE [raised |-> FALSE, error |-> "", chunk_list |-> chunk_list]

\* The values a caller can pass for chunk_size and chunk_overlap.
SizeArgs == {Null} \cup {Some(n) : n \in 0..MaxSize}

\* A caller constructs a chunker.
Construct(chunk_size, chunk_overlap) ==
    /\ chunker.state = "none"
    /\ LET self == SemanticChunker(chunk_size, chunk_overlap) IN
       chunker' = [NoChunker EXCEPT
                      !.state = IF self.raised THEN "rejected" ELSE "built",
                      !.args = [chunk_size |-> chunk_size,
                                chunk_overlap |-> chunk_overlap],
                      !.self = self]
    /\ UNCHANGED <<docs, files, chunks, procQ, embQ, vectors, clock, nextId,
                   edges, response, run, reply>>

\* A caller chunks a text with the chunker it has constructed.
ChunkText(text) ==
    /\ chunker.state = "built"
    /\ chunker.calls = 0
    /\ chunker' = [chunker EXCEPT
                      !.calls = 1,
                      !.text = text,
                      !.result = SemanticChunker_chunk_text(chunker.self,
                                                            text)]
    /\ UNCHANGED <<docs, files, chunks, procQ, embQ, vectors, clock, nextId,
                   edges, response, run, reply>>

\* The caller chunks the same text another time.
ChunkAgain ==
    /\ chunker.state = "built"
    /\ chunker.calls > 0
    /\ chunker.calls < MaxCalls
    /\ chunker' = [chunker EXCEPT
                      !.calls = @ + 1,
                      !.again = TRUE,
                      !.result = SemanticChunker_chunk_text(chunker.self,
                                                            chunker.text)]
    /\ UNCHANGED <<docs, files, chunks, procQ, embQ, vectors, clock, nextId,
                   edges, response, run, reply>>

ConstructChunker ==
    \E chunk_size \in SizeArgs, chunk_overlap \in SizeArgs :
        Construct(chunk_size, chunk_overlap)
CallChunkText == \E text \in Texts : ChunkText(text)

NextChunker ==
    \/ ConstructChunker
    \/ CallChunkText
    \/ ChunkAgain

\* The splitting of one text call by call.  work is the stack of what
\* _split_text still has to do, in the order of its results: a text to split
\* with the separators left for it, or chunks that are ready; out collects
\* the chunks returned so far.
SplitCall(text, separators) ==
    [kind |-> "split", text |-> text, separators |-> separators,
     chunks |-> <<>>]
Ready(final_chunks) ==
    [kind |-> "ready", text |-> <<>>, separators |-> <<>>,
     chunks |-> final_chunks]

\* The first separator of the list that the text holds, the last one when it
\* holds none ("" is held by every text).
FirstSeparator(separators, text) ==
    LET found == {i \in 1..Len(separators) :
                     separators[i] = <<>> \/ Found(separators[i], text)}
    IN IF found = {} THEN Len(separators)
       ELSE CHOOSE i \in found : \A j \in found : i <= j

\* A recursion that keeps the separator it has just split on.
NewSeparators_Kept(separators, text) ==
    LET first == FirstSeparator(separators, text) IN
    IF separators[first] = <<>> THEN <<>>
    ELSE SubSeq(separators, first, Len(separators))

\* new_separators: the separators after the one the text is split on; none
\* after "", and none when the text holds no separator of the list.
NewSeparators(separators, text) ==
    LET first == FirstSeparator(separators, text) IN
    IF separators[first] = <<>>
          \/ (\A i \in 1..Len(separators) : ~Found(separators[i], text))
    THEN <<>>
    ELSE SubSeq(separators, first + 1, Len(separators))

\* The loop over the splits of one _split_text call: what it appends to
\* final_chunks, in order, with each recursive call left as a call to make.
RECURSIVE SplitItems(_, _, _, _)
SplitItems(self, splits, new_separators, good_splits) ==
    LET merged == IF good_splits # <<>>
                  THEN <<Ready(merge_splits(self, good_splits, <<>>, <<>>))>>
                  ELSE <<>>
    IN IF splits = <<>> THEN merged
       ELSE LET s == Head(splits) IN
            IF Len(s) < self.chunk_size
            THEN SplitItems(self, Tail(splits), new_separators,
                            Append(good_splits, s))
            ELSE merged
                 \o <<IF new_separators = <<>> THEN Ready(<<s>>)
                      ELSE SplitCall(s, new_separators)>>
                 \o SplitItems(self, Tail(splits), new_separators, <<>>)

\* chunk_text is called: the text goes to the splitter with all separators.
StartSplit(text) ==
    /\ chunker.state = "built"
    /\ chunker.calls = 0
    /\ strip(text) # <<>>
    /\ chunker' = [chunker EXCEPT
                      !.state = "splitting",
                      !.calls = 1,
                      !.text = text,
                      !.result = [raised |-> FALSE, error |-> "",
                                  chunk_list |-> <<>>,
                                  work |-> <<SplitCall(text,
                                                 chunker.self.separators)>>,
                                  deepest |-> 0, steps |-> 0]]
    /\ UNCHANGED <<docs, files, chunks, procQ, embQ, vectors, clock, nextId,
                   edges, response, run, reply>>

\* The splitter takes the next thing to do: ready chunks are returned, a
\* text is split on its first separator and its splits are dealt with.  The
\* call has returned when nothing is left to do.
SplitStep ==
    /\ chunker.state = "splitting"
    /\ LET work == chunker.result.work
           self == chunker.self
       IN IF work = <<>>
          THEN chunker' = [chunker EXCEPT !.state = "split",
                                          !.result.steps = @ + 1]
          ELSE LET top == Head(work)
                   first == FirstSeparator(top.separators, top.text)
               IN IF top.kind = "ready"
                  THEN chunker' = [chunker EXCEPT
                                      !.result.chunk_list = @ \o top.chunks,
                                      !.result.work = Tail(work),
                                      !.result.steps = @ + 1]
                  ELSE chunker' =
                           [chunker EXCEPT
                               !.result.work =
                                   SplitItems(self,
                                       split_text_with_regex(top.text,
                                           top.separators[first]),
                                       NewSeparators(top.separators, top.text),
                                       <<>>)
                                   \o Tail(work),
                               !.result.steps = @ + 1,
                               !.result.deepest =
                                   IF Len(self.separators)
                                          - Len(top.separators) + first > @
                                   THEN Len(self.separators)
                                            - Len(top.separators) + first
                                   ELSE @]
    /\ UNCHANGED <<docs, files, chunks, procQ, embQ, vectors, clock, nextId,
                   edges, response, run, reply>>

CallSplit == \E text \in Texts : StartSplit(text)

NextCascade ==
    \/ ConstructChunker
    \/ CallSplit
    \/ SplitStep


----------------------------------------------------------------------------
(* shared/vector_store.py *)

\* A write that numbers the objects by their place in the list.
add_documents_to_vectorstore_Renumbered(V, documents, firstId) ==
    V \cup {[id |-> firstId + i,
             document_id |-> documents[i].document_id,
             chunk_id |-> documents[i].chunk_id,
             chunk_index |-> i,
             file_type |-> documents[i].file_type] :
                i \in 1..Len(documents)}

\* A write that leaves the last document of the list out.
add_documents_to_vectorstore_Drop(V, documents, firstId) ==
    V \cup {[id |-> firstId + i,
             document_id |-> documents[i].document_id,
             chunk_id |-> documents[i].chunk_id,
             chunk_index |-> documents[i].chunk_index,
             file_type |-> documents[i].file_type] :
                i \in 1..(Len(documents) - 1)}

\* vector_store.add_documents(documents): one new object per document, each
\* under a new uuid.
add_documents_to_vectorstore(V, documents, firstId) ==
    V \cup {[id |-> firstId + i,
             document_id |-> documents[i].document_id,
             chunk_id |-> documents[i].chunk_id,
             chunk_index |-> documents[i].chunk_index,
             file_type |-> documents[i].file_type] :
                i \in 1..Len(documents)}

----------------------------------------------------------------------------
(* ingestion_service/routes/ingest.py *)

FileTypeOf(file_ext) == IF file_ext = ".pdf" THEN "pdf" ELSE "docx"

\* The route without its check for an empty file.
IngestResponse_NoEmptyCheck(upload, fault) ==
    IF upload.ext \notin ALLOWED_EXTENSIONS THEN 400
    ELSE IF upload.size > MAX_FILE_SIZE THEN 413
    ELSE IF fault # "none" THEN 500
    ELSE 201

\* The HTTP status of the response: 400/413 from validation, 500 from a
\* fault of the file write, the INSERT or the enqueue, 201 otherwise.
IngestResponse(upload, fault) ==
    IF upload.ext \notin ALLOWED_EXTENSIONS THEN 400
    ELSE IF upload.size = 0 THEN 400
    ELSE IF upload.size > MAX_FILE_SIZE THEN 413
    ELSE IF fault # "none" THEN 500
    ELSE 201

\* How far a request with this status gets: the file is written (step 4),
\* the record is created (step 5), the job is enqueued (step 6), each only
\* when the step before it returned.
IngestWritten(status, fault) == status \in {201, 500} /\ fault # "disk"
IngestRecorded(status, fault) ==
    IngestWritten(status, fault) /\ fault # "db_insert"

\* A route that enqueues the job before it creates the record.
IngestQueuedBeforeRecord(status, fault) ==
    IngestWritten(status, fault) /\ fault # "redis"

IngestQueued(status, fault) ==
    IngestRecorded(status, fault) /\ fault # "redis"

\* uuid4: an id that names no record and no file yet.
FreshDocIds == {d \in DocIds : docs[d] = NoDoc /\ files[PathOf(d)] = Missing}

ingest_document(upload, fault) ==
    /\ clock < MaxClock
    /\ FreshDocIds # {}
    /\ LET document_id == CHOOSE d \in FreshDocIds : TRUE
           status == IngestResponse(upload, fault)
           file_path == PathOf(document_id)
           metadata == [document_id |-> document_id,
                        file_path |-> file_path,
                        file_type |-> FileTypeOf(upload.ext),
                        file_size |-> upload.size,
                        status |-> UPLOADED,
                        upload_time |-> clock]
           job_data == [document_id |-> document_id,
                        file_path |-> file_path,
                        file_type |-> FileTypeOf(upload.ext)]
           written == IngestWritten(status, fault)
           recorded == IngestRecorded(status, fault)
           queued == IngestQueued(status, fault)
       IN
       /\ clock' = IF recorded THEN clock + 1 ELSE clock
       /\ files' = IF written
                   THEN [files EXCEPT ![file_path] = upload.content]
                   ELSE files
       /\ docs' = IF recorded THEN create_document_record(docs, metadata)
                  ELSE docs
       /\ procQ' = IF queued THEN enqueue_processing_job(procQ, job_data)
                   ELSE procQ
       /\ UNCHANGED <<chunks, embQ, vectors, nextId, edges>>

----------------------------------------------------------------------------
(* processing_service/tasks/process_document.py *)

\* Stage 1 without its checks of the processor, the file and the text.
Stage1RaisesAt_Unchecked(job_data, content, fault) ==
    IF fault = "db_status" THEN 1
    ELSE IF fault = "db_chunks" THEN 7
    ELSE IF fault = "redis" THEN 8
    ELSE 0

\* The step of the try block that raises, 0 when the task returns:
\* 1 status write, 2 processor selection, 3 existence check, 4 validate_file,
\* 5 extract_text, 6 chunk_text (it raises on a text with nothing in it),
\* 7 create_chunk_records, 8 enqueue_embedding_job.
Stage1RaisesAt(job_data, content, fault) ==
    IF fault = "db_status" THEN 1
    ELSE IF job_data.file_type \notin {"pdf", "docx"} THEN 2
    ELSE IF content = Missing THEN 3
    ELSE IF ~validate_file(content) THEN 4
    ELSE IF ExtractRaises(content) THEN 5
    ELSE IF extract_text(content) = <<>> THEN 6
    ELSE IF fault = "db_chunks" THEN 7
    ELSE IF fault = "redis" THEN 8
    ELSE 0

\* str(e) of the exception raised at a step.
Stage1Error(step, fault) ==
    CASE step = 2 -> "Unsupported file type"
      [] step = 3 -> "File not found"
      [] step = 4 -> "Invalid or corrupted file"
      [] step = 5 -> "No text content extracted"
      [] step = 6 -> "Cannot chunk empty text"
      [] OTHER -> fault

\* chunk_metadata: the document's id and type, then the keys of the
\* extractor's metadata (the page count stands for them; none of them is
\* document_id, chunk_id or chunk_index).
chunk_metadata(document_id, file_type) ==
    [document_id |-> document_id, file_type |-> file_type, num_pages |-> 1]

\* str(dict): Python's repr, "{}" for the empty dict and the keys in single
\* quotes otherwise.
str(mapping) ==
    [quote |-> IF DOMAIN mapping = {} THEN "" ELSE "'", mapping |-> mapping]

\* The inserts of a list of n rows that may raise when the task raises at
\* raisedAt: any one of them at step 7, none otherwise.
InsertFailures(raisedAt, n) == IF raisedAt = 7 THEN 1..n ELSE {0}

\* The call at step k returned: the task got past it.
Passed(raisedAt, k) == raisedAt = 0 \/ raisedAt > k

\* The embedding job is queued when enqueue_embedding_job (step 8) returns;
\* the variant queues it before the chunks are saved (step 7).
Stage1EnqueuesBeforeSave(raisedAt) == Passed(raisedAt, 6)
Stage1Enqueues(raisedAt) == Passed(raisedAt, 8)

process_document_task(d, fault) ==
    /\ procQ[d].status = "queued"
    /\ clock < MaxClock
    /\ LET job_data == procQ[d].job_data
           document_id == job_data.document_id
           content == files[job_data.file_path]
           raisedAt == Stage1RaisesAt(job_data, content, fault)
           docs1 == IF Passed(raisedAt, 1)
                    THEN update_document_status(docs, document_id, PROCESSING,
                                                Null, clock)
                    ELSE docs
           clock1 == IF Passed(raisedAt, 1) THEN clock + 1 ELSE clock
           pieces == IF Passed(raisedAt, 5)
                     THEN chunk_text(extract_text(content)) ELSE <<>>
           chunk_records ==
               [i \in 1..Len(pieces) |->
                   [chunk_id |-> nextId + i,
                    document_id |-> document_id,
                    chunk_index |-> pieces[i].chunk_index,
                    chunk_text |-> pieces[i].chunk_text,
                    chunk_size |-> pieces[i].chunk_size,
                    metadata |-> str(chunk_metadata(document_id,
                                                    job_data.file_type))]]
           embedding_job_data == [document_id |-> document_id,
                                  chunks |-> chunk_records]
           error_message == "Processing failed: " \o Stage1Error(raisedAt, fault)
       IN
       /\ nextId' = nextId + Len(chunk_records)
       /\ \E failAt \in InsertFailures(raisedAt, Len(chunk_records)) :
              chunks' = IF Passed(raisedAt, 6)
                        THEN create_chunk_records(chunks, chunk_records, failAt)
                        ELSE chunks
       /\ embQ' = IF Stage1Enqueues(raisedAt)
                  THEN enqueue_embedding_job(embQ, embedding_job_data)
                  ELSE embQ
       /\ docs' = IF raisedAt = 0 THEN docs1
                  ELSE update_document_status(docs1, document_id, FAILED,
                                              Some(error_message), clock1)
       /\ clock' = IF raisedAt = 0 THEN clock1 ELSE clock1 + 1
       /\ procQ' = JobEnded(procQ, d, raisedAt # 0)
       /\ edges' = [edges EXCEPT ![document_id] =
                       @ \cup StatusEdge(docs, docs1, document_id)
                         \cup StatusEdge(docs1, docs', document_id)]
       /\ UNCHANGED <<files, vectors>>

----------------------------------------------------------------------------
(* embedding_service/tasks/embed_document.py *)

\* json.loads: a text with keys in single quotes is not JSON.
json_loads(text) ==
    [raised |-> text.quote = "'",
     value |-> IF text.quote = "'" THEN <<>> ELSE text.mapping]

\* The metadata of a chunk of the job: parsed from its string, {} when the
\* parse raises.
parsed_metadata(chunk) ==
    IF json_loads(chunk.metadata).raised THEN <<>>
    ELSE json_loads(chunk.metadata).value

\* {**base, **extra}: the keys of extra win.
Override(base, extra) ==
    [key \in DOMAIN base \cup DOMAIN extra |->
        IF key \in DOMAIN extra THEN extra[key] ELSE base[key]]

\* The step of the try block that raises, 0 when the task returns:
\* 1 empty chunk list, 3 get_document returns None, 4 get_vector_store,
\* 5 add_documents_to_vectorstore (the embedding call), 6 status write.
Stage2RaisesAt(job_data, fault) ==
    IF Len(job_data.chunks) = 0 THEN 1
    ELSE IF get_document(docs, job_data.document_id) = NoDoc THEN 3
    ELSE IF fault = "weaviate" THEN 4
    ELSE IF fault = "ollama" THEN 5
    ELSE IF fault = "db_status" THEN 6
    ELSE 0

Stage2Error(step, fault) ==
    CASE step = 1 -> "No chunks provided for embedding"
      [] step = 3 -> "Document not found"
      [] OTHER -> fault

embed_document_task(d, fault) ==
    /\ embQ[d].status = "queued"
    /\ clock < MaxClock
    /\ LET job_data == embQ[d].job_data
           document_id == job_data.document_id
           raisedAt == Stage2RaisesAt(job_data, fault)
           langchain_docs ==
               [i \in 1..Len(job_data.chunks) |->
                   Override(
                       [document_id |-> document_id,
                        chunk_id |-> job_data.chunks[i].chunk_id,
                        chunk_index |-> job_data.chunks[i].chunk_index,
                        file_type |->
                            get_document(docs, document_id).file_type],
                       parsed_metadata(job_data.chunks[i]))]
           stored == Passed(raisedAt, 5)
           docs1 == IF raisedAt = 0
                    THEN update_document_status(docs, document_id, COMPLETED,
                                                Null, clock)
                    ELSE docs
           error_message == "Embedding failed: " \o Stage2Error(raisedAt, fault)
       IN
       /\ vectors' = IF stored
                     THEN add_documents_to_vectorstore(vectors, langchain_docs,
                                                       nextId)
                     ELSE vectors
       /\ nextId' = IF stored THEN nextId + Len(langchain_docs) ELSE nextId
       /\ docs' = IF raisedAt = 0 THEN docs1
                  ELSE update_document_status(docs1, document_id, FAILED,
                                              Some(error_message), clock)
       /\ clock' = clock + 1
       /\ embQ' = JobEnded(embQ, d, raisedAt # 0)
       /\ edges' = [edges EXCEPT ![document_id] =
                       @ \cup StatusEdge(docs, docs', document_id)]
       /\ UNCHANGED <<files, chunks, procQ>>

----------------------------------------------------------------------------
(* The environment of the tasks *)

\* A job in the failed registry is put back on its queue.
RequeueProcessing(d) ==
    /\ procQ[d].status = "failed"
    /\ procQ' = [procQ EXCEPT ![d].status = "queued"]
    /\ UNCHANGED <<docs, files, chunks, embQ, vectors, clock, nextId, edges>>

RequeueEmbedding(d) ==
    /\ embQ[d].status = "failed"
    /\ embQ' = [embQ EXCEPT ![d].status = "queued"]
    /\ UNCHANGED <<docs, files, chunks, procQ, vectors, clock, nextId, edges>>

\* The uploaded file is gone from the upload directory when stage 1 looks.
FileLost(d) ==
    /\ procQ[d].status = "queued"
    /\ files[PathOf(d)] # Missing
    /\ files' = [files EXCEPT ![PathOf(d)] = Missing]
    /\ UNCHANGED <<docs, chunks, procQ, embQ, vectors, clock, nextId, edges>>

Uploads == [ext : Extensions, size : FileSizes, content : Contents]

\* In the specifications of whole stage executions no request is observed
\* and no worker is part-way through a job.
Ingest ==
    /\ \E upload \in Uploads, fault \in Faults0 : ingest_document(upload, fault)
    /\ UNCHANGED <<response, run, chunker, reply>>
Stage1 ==
    /\ \E d \in DocIds, fault \in Faults1 : process_document_task(d, fault)
    /\ UNCHANGED <<response, run, chunker, reply>>
Stage2 ==
    /\ \E d \in DocIds, fault \in Faults2 : embed_document_task(d, fault)
    /\ UNCHANGED <<response, run, chunker, reply>>
Requeue1 ==
    /\ \E d \in DocIds : RequeueProcessing(d)
    /\ UNCHANGED <<response, run, chunker, reply>>
Requeue2 ==
    /\ \E d \in DocIds : RequeueEmbedding(d)
    /\ UNCHANGED <<response, run, chunker, reply>>
LoseFile ==
    /\ \E d \in DocIds : FileLost(d)
    /\ UNCHANGED <<response, run, chunker, reply>>

----------------------------------------------------------------------------
Init ==
    /\ docs = [d \in DocIds |-> NoDoc]
    /\ files = [p \in Paths |-> Missing]
    /\ chunks = {}
    /\ procQ = [d \in DocIds |-> NoJob]
    /\ embQ = [d \in DocIds |-> NoJob]
    /\ vectors = {}
    /\ clock = 0
    /\ nextId = 0
    /\ edges = [d \in DocIds |-> {}]
    /\ response = NoResponse
    /\ run = [w \in Workers |-> Idle]
    /\ chunker = NoChunker
    /\ reply = NoReply

Next ==
    \/ Ingest
    \/ Stage1
    \/ Stage2
    \/ Requeue1
    \/ Requeue2
    \/ LoseFile

Spec == Init /\ [][Next]_vars

\* The chunker alone, constructed and called by any caller.
SpecChunker == Init /\ [][NextChunker]_vars

\* The splitter call by call.  A call that has work left goes on with it:
\* the interpreter runs the call until it returns.
SpecCascade == Init /\ [][NextCascade]_vars

----------------------------------------------------------------------------
(* The Document Store alone: create_document_record and                    *)
(* update_document_status called with any status and any error text.       *)

ErrorTexts == {Null, Some("error")}

StoreCreate(d) ==
    /\ clock < MaxClock
    /\ docs[d] = NoDoc
    /\ docs' = create_document_record(docs,
                   [document_id |-> d, file_path |-> PathOf(d),
                    file_type |-> "pdf", file_size |-> 1,
                    status |-> UPLOADED, upload_time |-> clock])
    /\ clock' = clock + 1
    /\ UNCHANGED <<files, chunks, procQ, embQ, vectors, nextId, edges>>

StoreUpdate(d, status, error_message) ==
    /\ clock < MaxClock
    /\ docs' = update_document_status(docs, d, status, error_message, clock)
    /\ clock' = clock + 1
    /\ edges' = [edges EXCEPT ![d] = @ \cup StatusEdge(docs, docs', d)]
    /\ UNCHANGED <<files, chunks, procQ, embQ, vectors, nextId>>

CreateRecord ==
    /\ \E d \in DocIds : StoreCreate(d)
    /\ UNCHANGED <<response, run, chunker, reply>>
UpdateStatus ==
    /\ \E d \in DocIds, status \in DocumentStatus, e \in ErrorTexts :
           StoreUpdate(d, status, e)
    /\ UNCHANGED <<response, run, chunker, reply>>

NextStore ==
    \/ CreateRecord
    \/ UpdateStatus

SpecStore == Init /\ [][NextStore]_vars

----------------------------------------------------------------------------
(* The ingestion route alone, each request observed with its response.     *)

IngestRequest ==
    \E upload \in Uploads, fault \in Faults0 :
        /\ ingest_document(upload, fault)
        /\ response' = [upload |-> upload,
                        status |-> IngestResponse(upload, fault)]
        /\ UNCHANGED <<run, chunker, reply>>

NextIngest == IngestRequest

SpecIngest == Init /\ [][NextIngest]_vars

----------------------------------------------------------------------------
(* The workers step by step.  A worker takes a job (RQ marks it started),  *)
(* runs the task one call group at a time and ends it; between two steps   *)
(* of one worker the other workers move.  A worker may die at any point,   *)
(* (SpecCrash), and a started job that outlives its job_timeout may be     *)
(* handed out again while the first execution is still going               *)
(* (SpecOverlap).                                                          *)

\* What the worker records at the end of a task: nothing when the job has
\* been put back on the queue in the meantime.
EndJob(Q, document_id, raised) ==
    IF Q[document_id].status = "queued" THEN Q
    ELSE JobEnded(Q, document_id, raised)

\* The executions under way on document d, other than worker w's, that have
\* already written d's status see it written by someone else.
Overwritten(R, w, d) ==
    [v \in Workers |->
        IF v # w /\ R[v] # Idle /\ R[v].job_data.document_id = d /\ R[v].wrote
        THEN [R[v] EXCEPT !.dirty = TRUE]
        ELSE R[v]]

Execution(job_data, pc) ==
    [pc |-> pc, job_data |-> job_data, msg |-> "",
     wrote |-> FALSE, dirty |-> FALSE, late |-> FALSE]

\* The executions of the workers W under way on document d have lost their
\* job to a new delivery.
Superseded(R, W, d) ==
    [v \in Workers |->
        IF v \in W /\ R[v] # Idle /\ R[v].job_data.document_id = d
        THEN [R[v] EXCEPT !.late = TRUE]
        ELSE R[v]]

WorkerTakes1(w, d) ==
    /\ run[w] = Idle
    /\ procQ[d].status = "queued"
    /\ procQ' = [procQ EXCEPT ![d].status = "started"]
    /\ run' = [run EXCEPT ![w] = Execution(procQ[d].job_data, "status")]
    /\ UNCHANGED <<docs, files, chunks, embQ, vectors, clock, nextId, edges,
                   response, chunker, reply>>

\* process_document.py:40, the first call of the try block; whether it
\* raises does not depend on the file.
Stage1Status(w, fault) ==
    /\ run[w].pc = "status"
    /\ clock < MaxClock
    /\ LET document_id == run[w].job_data.document_id
           raised == Stage1RaisesAt(run[w].job_data, Missing, fault) = 1
       IN
       /\ docs' = IF raised THEN docs
                  ELSE update_document_status(docs, document_id, PROCESSING,
                                              Null, clock)
       /\ clock' = IF raised THEN clock ELSE clock + 1
       /\ run' = IF raised
                 THEN [run EXCEPT ![w].pc = "except", ![w].msg = fault]
                 ELSE Overwritten([run EXCEPT ![w].pc = "work",
                                              ![w].wrote = TRUE],
                                  w, document_id)
       /\ edges' = [edges EXCEPT ![document_id] =
                       @ \cup StatusEdge(docs, docs', document_id)]
       /\ UNCHANGED <<files, chunks, procQ, embQ, vectors, nextId,
                      response, chunker, reply>>

\* process_document.py:43-121: from the processor selection to the return.
Stage1Work(w, fault) ==
    /\ run[w].pc = "work"
    /\ nextId + MaxChunks <= MaxIds
    /\ LET job_data == run[w].job_data
           document_id == job_data.document_id
           content == files[job_data.file_path]
           raisedAt == Stage1RaisesAt(job_data, content, fault)
           pieces == IF Passed(raisedAt, 5)
                     THEN chunk_text(extract_text(content)) ELSE <<>>
           chunk_records ==
               [i \in 1..Len(pieces) |->
                   [chunk_id |-> nextId + i,
                    document_id |-> document_id,
                    chunk_index |-> pieces[i].chunk_index,
                    chunk_text |-> pieces[i].chunk_text,
                    chunk_size |-> pieces[i].chunk_size,
                    metadata |-> str(chunk_metadata(document_id,
                                                    job_data.file_type))]]
           embedding_job_data == [document_id |-> document_id,
                                  chunks |-> chunk_records]
       IN
       /\ nextId' = nextId + Len(chunk_records)
       /\ \E failAt \in InsertFailures(raisedAt, Len(chunk_records)) :
              chunks' = IF Passed(raisedAt, 6)
                        THEN create_chunk_records(chunks, chunk_records, failAt)
                        ELSE chunks
       /\ embQ' = IF Stage1Enqueues(raisedAt)
                  THEN enqueue_embedding_job(embQ, embedding_job_data)
                  ELSE embQ
       /\ procQ' = IF raisedAt = 0 THEN EndJob(procQ, document_id, FALSE)
                   ELSE procQ
       /\ run' = IF raisedAt = 0 THEN [run EXCEPT ![w] = Idle]
                 ELSE [run EXCEPT ![w].pc = "except",
                                  ![w].msg = Stage1Error(raisedAt, fault)]
       /\ UNCHANGED <<docs, files, vectors, clock, edges,
                      response, chunker, reply>>

\* process_document.py:123-128, the except block.
Stage1Except(w) ==
    /\ run[w].pc = "except"
    /\ clock < MaxClock
    /\ LET document_id == run[w].job_data.document_id
           error_message == "Processing failed: " \o run[w].msg
       IN
       /\ docs' = update_document_status(docs, document_id, FAILED,
                                         Some(error_message), clock)
       /\ clock' = clock + 1
       /\ procQ' = EndJob(procQ, document_id, TRUE)
       /\ run' = Overwritten([run EXCEPT ![w] = Idle], w, document_id)
       /\ edges' = [edges EXCEPT ![document_id] =
                       @ \cup StatusEdge(docs, docs', document_id)]
       /\ UNCHANGED <<files, chunks, embQ, vectors, nextId,
                      response, chunker, reply>>

WorkerTakes2(w, d) ==
    /\ run[w] = Idle
    /\ embQ[d].status = "queued"
    /\ embQ' = [embQ EXCEPT ![d].status = "started"]
    /\ run' = [run EXCEPT ![w] = Execution(embQ[d].job_data, "embed")]
    /\ UNCHANGED <<docs, files, chunks, procQ, vectors, clock, nextId, edges,
                   response, chunker, reply>>

\* embed_document.py:38-89: from the check of the chunk list to the write of
\* the vector records.
Stage2Embed(w, fault) ==
    /\ run[w].pc = "embed"
    /\ nextId + MaxChunks <= MaxIds
    /\ LET job_data == run[w].job_data
           document_id == job_data.document_id
           raisedAt == Stage2RaisesAt(job_data, fault)
           langchain_docs ==
               [i \in 1..Len(job_data.chunks) |->
                   Override(
                       [document_id |-> document_id,
                        chunk_id |-> job_data.chunks[i].chunk_id,
                        chunk_index |-> job_data.chunks[i].chunk_index,
                        file_type |->
                            get_document(docs, document_id).file_type],
                       parsed_metadata(job_data.chunks[i]))]
       IN
       /\ vectors' = IF raisedAt = 0
                     THEN add_documents_to_vectorstore(vectors, langchain_docs,
                                                       nextId)
                     ELSE vectors
       /\ nextId' = IF raisedAt = 0 THEN nextId + Len(langchain_docs)
                    ELSE nextId
       /\ run' = IF raisedAt = 0 THEN [run EXCEPT ![w].pc = "complete"]
                 ELSE [run EXCEPT ![w].pc = "except",
                                  ![w].msg = Stage2Error(raisedAt, fault)]
       /\ UNCHANGED <<docs, files, chunks, procQ, embQ, clock, edges,
                      response, chunker, reply>>

\* embed_document.py:94-105: the status write and the return.
Stage2Complete(w, fault) ==
    /\ run[w].pc = "complete"
    /\ clock < MaxClock
    /\ LET document_id == run[w].job_data.document_id
           raised == Stage2RaisesAt(run[w].job_data, fault) = 6
       IN
       /\ docs' = IF raised THEN docs
                  ELSE update_document_status(docs, document_id, COMPLETED,
                                              Null, clock)
       /\ clock' = IF raised THEN clock ELSE clock + 1
       /\ embQ' = IF raised THEN embQ ELSE EndJob(embQ, document_id, FALSE)
       /\ run' = IF raised
                 THEN [run EXCEPT ![w].pc = "except", ![w].msg = fault]
                 ELSE Overwritten([run EXCEPT ![w] = Idle], w, document_id)
       /\ edges' = [edges EXCEPT ![document_id] =
                       @ \cup StatusEdge(docs, docs', document_id)]
       /\ UNCHANGED <<files, chunks, procQ, vectors, nextId,
                      response, chunker, reply>>

\* embed_document.py:107-112, the except block.
Stage2Except(w) ==
    /\ run[w].pc = "except"
    /\ clock < MaxClock
    /\ LET document_id == run[w].job_data.document_id
           error_message == "Embedding failed: " \o run[w].msg
       IN
       /\ docs' = update_document_status(docs, document_id, FAILED,
                                         Some(error_message), clock)
       /\ clock' = clock + 1
       /\ embQ' = EndJob(embQ, document_id, TRUE)
       /\ run' = Overwritten([run EXCEPT ![w] = Idle], w, document_id)
       /\ edges' = [edges EXCEPT ![document_id] =
                       @ \cup StatusEdge(docs, docs', document_id)]
       /\ UNCHANGED <<files, chunks, procQ, vectors, nextId,
                      response, chunker, reply>>

\* The worker process dies with a job in hand: the task goes no further, its
\* except block does not run, and the job ends in the failed registry with
\* the note that its worker was lost.
JobAbandoned(Q, document_id) ==
    IF Q[document_id].status = "started"
    THEN [Q EXCEPT ![document_id] =
             [status |-> "failed", job_data |-> @.job_data, abandoned |-> TRUE]]
    ELSE Q

WorkerCrashes(w) ==
    /\ run[w] # Idle
    /\ run' = [run EXCEPT ![w] = Idle]
    /\ procQ' = IF w \in Workers1
                THEN JobAbandoned(procQ, run[w].job_data.document_id)
                ELSE procQ
    /\ embQ' = IF w \in Workers2
               THEN JobAbandoned(embQ, run[w].job_data.document_id)
               ELSE embQ
    /\ UNCHANGED <<docs, files, chunks, vectors, clock, nextId, edges,
                   response, chunker, reply>>

\* A started job has run longer than its job_timeout and is handed out again
\* while the worker that has it is still at work.
RedeliverProcessing(d) ==
    /\ procQ[d].status = "started"
    /\ procQ' = [procQ EXCEPT ![d].status = "queued"]
    /\ run' = Superseded(run, Workers1, d)
    /\ UNCHANGED <<docs, files, chunks, embQ, vectors, clock, nextId, edges,
                   response, chunker, reply>>

RedeliverEmbedding(d) ==
    /\ embQ[d].status = "started"
    /\ embQ' = [embQ EXCEPT ![d].status = "queued"]
    /\ run' = Superseded(run, Workers2, d)
    /\ UNCHANGED <<docs, files, chunks, procQ, vectors, clock, nextId, edges,
                   response, chunker, reply>>

\* Step by step the calls to SQLite, Redis and Weaviate return: stage 1
\* raises only on what it finds in the file, stage 2 only when the embedding
\* call fails.
StepFaults1 == {"none"}
StepFaults2 == {"none", "ollama"}

\* Uploads that the route accepts and stores.
ValidUploads == {u \in Uploads : IngestResponse(u, "none") = 201}

\* One upload is followed through the workers.
IngestValid ==
    /\ \A d \in DocIds : docs[d] = NoDoc
    /\ \E upload \in ValidUploads : ingest_document(upload, "none")
    /\ UNCHANGED <<response, run, chunker, reply>>

Take1 == \E w \in Workers1, d \in DocIds : WorkerTakes1(w, d)
Status1 == \E w \in Workers1, fault \in StepFaults1 : Stage1Status(w, fault)
Work1 == \E w \in Workers1, fault \in StepFaults1 : Stage1Work(w, fault)
Except1 == \E w \in Workers1 : Stage1Except(w)
Take2 == \E w \in Workers2, d \in DocIds : WorkerTakes2(w, d)
Embed2 == \E w \in Workers2, fault \in StepFaults2 : Stage2Embed(w, fault)
Complete2 == \E w \in Workers2, fault \in StepFaults1 : Stage2Complete(w, fault)
Except2 == \E w \in Workers2 : Stage2Except(w)
Crash == \E w \in Workers : WorkerCrashes(w)
Redeliver1 == \E d \in DocIds : RedeliverProcessing(d)
Redeliver2 == \E d \in DocIds : RedeliverEmbedding(d)

WorkerStep ==
    \/ Take1
    \/ Status1
    \/ Work1
    \/ Except1
    \/ Take2
    \/ Embed2
    \/ Complete2
    \/ Except2

\* Workers that may die with a job in hand.
NextCrash ==
    \/ IngestValid
    \/ WorkerStep
    \/ Crash
    \/ Requeue1
    \/ Requeue2

SpecCrash == Init /\ [][NextCrash]_vars

\* The workers keep working (worker.work() loops for ever): a step that a
\* worker can take is taken.  Nothing in the code puts a failed job back on
\* its queue, so Requeue1 and Requeue2 may or may not happen.
SpecCrashFair == SpecCrash /\ WF_vars(WorkerStep)

\* Jobs that are handed out again while their first execution goes on.
NextOverlap ==
    \/ IngestValid
    \/ WorkerStep
    \/ Redeliver1
    \/ Redeliver2
    \/ Requeue1
    \/ Requeue2

SpecOverlap == Init /\ [][NextOverlap]_vars

----------------------------------------------------------------------------
(* query_service: the routes of routes/query.py, one request observed with *)
(* its reply.  reply.called names the services the handler went to: the    *)
(* embedding provider and the vector index.                                *)

\* Python's truth value of an Optional[str]: None and "" are false.
Truthy(value) == value # Null /\ value # Some("")

\* database.get_all_documents(status): the rows, those of one status when a
\* status is given.
get_all_documents(D, status) ==
    {D[d] : d \in {e \in DocIds : /\ D[e] # NoDoc
                                  /\ Truthy(status) => D[e].status \in status}}

\* models/schemas.py QueryRequest: q has min_length 1, top_k has ge=1, le=50.
\* The variant has lost the upper limit of top_k.
QueryRequest_NoUpperLimit(request) ==
    /\ request.q # ""
    /\ request.top_k >= 1
QueryRequest(request) ==
    /\ request.q # ""
    /\ request.top_k >= 1
    /\ request.top_k <= 50

\* Step 3 of query_documents: the filter of the fields that were given.
NoFilter == [document_id |-> Null, file_type |-> Null]
filter_dict(request) ==
    [document_id |-> IF Truthy(request.document_id)
                     THEN request.document_id ELSE Null,
     file_type |-> IF Truthy(request.file_type)
                   THEN request.file_type ELSE Null]

\* vector_store.similarity_search(query, k, filters): at most k objects of
\* the collection, each equal to the filter in the fields the filter names;
\* which ones, and in which order, is the index's ranking.
search_similar_documents(V, k, filters) ==
    LET matching == {o \in V :
                        /\ filters.document_id # Null
                              => o.document_id \in filters.document_id
                        /\ filters.file_type # Null
                              => o.file_type \in filters.file_type}
    IN {results \in SUBSET matching : Cardinality(results) <= k}

\* Step 5 of query_documents: a ChunkResult from the metadata of an object.
ChunkResult(doc) ==
    [chunk_id |-> doc.chunk_id,
     document_id |-> doc.document_id,
     chunk_index |-> doc.chunk_index,
     file_type |-> doc.file_type]

Answer(op, request, status, called) ==
    [op |-> op, request |-> request, status |-> status, called |-> called,
     k |-> 0, filters |-> NoFilter, body |-> {}]

\* POST /query.  FastAPI validates the body against QueryRequest before it
\* calls the handler (422).  The handler connects to the index
\* (get_vector_store), then the search embeds the query and asks the index;
\* whatever raises is answered 500.
query_documents(request, fault) ==
    /\ reply = NoReply
    /\ IF ~QueryRequest(request)
       THEN reply' = Answer("query", request, 422, {})
       ELSE IF fault = "weaviate"
       THEN reply' = Answer("query", request, 500, {"index"})
       ELSE IF fault = "ollama"
       THEN reply' = Answer("query", request, 500, {"index", "embedder"})
       ELSE \E results \in search_similar_documents(vectors, request.top_k,
                                                    filter_dict(request)) :
               reply' = [Answer("query", request, 200, {"index", "embedder"})
                            EXCEPT !.k = request.top_k,
                                   !.filters = filter_dict(request),
                                   !.body = {ChunkResult(o) : o \in results}]
    /\ UNCHANGED <<docs, files, chunks, procQ, embQ, vectors, clock, nextId,
                   edges, response, run, chunker>>

\* DocumentInfo of a row, with the number of its chunk rows.
DocumentInfo(doc, num_chunks) ==
    [document_id |-> doc.document_id,
     file_type |-> doc.file_type,
     file_size |-> doc.file_size,
     status |-> doc.status,
     upload_time |-> doc.upload_time,
     num_chunks |-> num_chunks]

\* A listing that counts the chunks of a document in the vector index.
list_documents_FromIndex(status_filter, fault) ==
    /\ reply = NoReply
    /\ reply' = IF fault = "db"
                THEN Answer("list", status_filter, 500, {})
                ELSE [Answer("list", status_filter, 200, {"index"}) EXCEPT
                         !.body =
                             {DocumentInfo(doc,
                                  Cardinality({o \in vectors :
                                      o.document_id = doc.document_id})) :
                                 doc \in get_all_documents(docs,
                                                           status_filter)}]
    /\ UNCHANGED <<docs, files, chunks, procQ, embQ, vectors, clock, nextId,
                   edges, response, run, chunker>>

\* GET /documents
list_documents(status_filter, fault) ==
    /\ reply = NoReply
    /\ reply' = IF fault = "db"
                THEN Answer("list", status_filter, 500, {})
                ELSE [Answer("list", status_filter, 200, {}) EXCEPT
                         !.body =
                             {DocumentInfo(doc,
                                  Cardinality(get_document_chunks(chunks,
                                                  doc.document_id))) :
                                 doc \in get_all_documents(docs,
                                                           status_filter)}]
    /\ UNCHANGED <<docs, files, chunks, procQ, embQ, vectors, clock, nextId,
                   edges, response, run, chunker>>

\* GET /documents/{document_id}
get_document_details(document_id, fault) ==
    /\ reply = NoReply
    /\ LET doc == get_document(docs, document_id) IN
       reply' = IF fault = "db"
                THEN Answer("detail", document_id, 500, {})
                ELSE IF doc = NoDoc
                THEN Answer("detail", document_id, 404, {})
                ELSE [Answer("detail", document_id, 200, {}) EXCEPT
                         !.body =
                             [document |-> doc,
                              num_chunks |->
                                  Cardinality(get_document_chunks(chunks,
                                                                  document_id)),
                              chunks |-> get_document_chunks(chunks,
                                                             document_id)]]
    /\ UNCHANGED <<docs, files, chunks, procQ, embQ, vectors, clock, nextId,
                   edges, response, run, chunker>>

\* The requests a client can send.
Requests ==
    [q : {"", "q"},
     top_k : {0, 1, 2, 50, 51},
     document_id : {Null, Some("")} \cup {Some(d) : d \in DocIds},
     file_type : {Null, Some("pdf")}]
StatusFilters == {Null, Some("")} \cup {Some(st) : st \in DocumentStatus}
QueryFaults == {"none", "ollama", "weaviate"}
ReadFaults == {"none", "db"}

Query == \E request \in Requests, fault \in QueryFaults :
             query_documents(request, fault)
ListDocuments == \E status_filter \in StatusFilters, fault \in ReadFaults :
                     list_documents(status_filter, fault)
DocumentDetails == \E d \in DocIds, fault \in ReadFaults :
                       get_document_details(d, fault)

\* The stores a request can meet.  A document is absent or in one of the
\* four statuses, with chunk rows once stage 1 has saved them; the
\* collection holds any of the objects stage 2 writes for the two documents.
StoredRow(d, status) ==
    LET created == create_document_record([e \in DocIds |-> NoDoc],
                       [document_id |-> d, file_path |-> PathOf(d),
                        file_type |-> IF d = "doc_a" THEN "pdf" ELSE "docx",
                        file_size |-> 1, status |-> UPLOADED,
                        upload_time |-> 0])
    IN IF status = UPLOADED THEN created[d]
       ELSE update_document_status(created, d, status,
                IF status = FAILED THEN Some("error") ELSE Null, 1)[d]

StoredChunks(D) ==
    {[chunk_id |-> i, document_id |-> d, chunk_index |-> i - 1,
      chunk_text |-> i, chunk_size |-> len(i),
      metadata |-> str(chunk_metadata(d, D[d].file_type))] :
        d \in {e \in DocIds : D[e] # NoDoc /\ D[e].status # UPLOADED},
        i \in 1..MaxChunks}

StoredObjects ==
    {[id |-> IF d = "doc_a" THEN i ELSE MaxChunks + i,
      document_id |-> d, chunk_id |-> i, chunk_index |-> i - 1,
      file_type |-> IF d = "doc_a" THEN "pdf" ELSE "docx"] :
        d \in DocIds, i \in 1..MaxChunks}

InitQuery ==
    /\ docs \in [DocIds -> {NoDoc}] \cup
                   {[d \in DocIds |-> IF d \in present
                                      THEN StoredRow(d, status_of[d])
                                      ELSE NoDoc] :
                       present \in SUBSET DocIds,
                       status_of \in [DocIds -> DocumentStatus]}
    /\ chunks = StoredChunks(docs)
    /\ vectors \in SUBSET StoredObjects
    /\ files = [p \in Paths |-> Missing]
    /\ procQ = [d \in DocIds |-> NoJob]
    /\ embQ = [d \in DocIds |-> NoJob]
    /\ clock = 0
    /\ nextId = 0
    /\ edges = [d \in DocIds |-> {}]
    /\ response = NoResponse
    /\ run = [w \in Workers |-> Idle]
    /\ chunker = NoChunker
    /\ reply = NoReply

NextQuery ==
    \/ Query
    \/ ListDocuments
    \/ DocumentDetails

SpecQuery == InitQuery /\ [][NextQuery]_vars

\* The pipeline of one upload together with the query service: the stages
\* and their retries run while a client sends a request.
NextService ==
    \/ IngestValid
    \/ Stage1
    \/ Stage2
    \/ Requeue1
    \/ Requeue2
    \/ Query
    \/ ListDocuments
    \/ DocumentDetails

SpecService == Init /\ [][NextService]_vars

\* One upload followed to its end by workers that keep working on both
\* queues (worker.work() loops for ever, and a worker takes every job that is
\* on its queue): a stage execution that can happen does happen.  The clock
\* has room for every step of the one upload.
Upload ==
    /\ \A d \in DocIds : docs[d] = NoDoc
    /\ Ingest

NextPipeline ==
    \/ Upload
    \/ Stage1
    \/ Stage2

SpecPipeline == Init /\ [][NextPipeline]_vars
SpecPipelineFair == SpecPipeline /\ WF_vars(Stage1) /\ WF_vars(Stage2)

----------------------------------------------------------------------------
(* Properties *)

Exists(d) == docs[d] # NoDoc
Rows(C, d) == get_document_chunks(C, d)

LegalEdges ==
    {<<UPLOADED, PROCESSING>>, <<PROCESSING, COMPLETED>>, <<PROCESSING, FAILED>>}

\* C1: on every record, every change of status follows one of the edges
\* uploaded -> processing, processing -> completed, processing -> failed,
\* whatever the sequence of ingests, deliveries and re-deliveries.
C1_OnlyLegalEdges ==
    \A d \in DocIds : edges[d] \subseteq LegalEdges

\* C2: update_document_status rejects a request that skips a state or goes
\* backwards: a record in uploaded is never set to completed or failed, and a
\* record in processing, completed or failed is never set to uploaded; the
\* record stays as it was.
C2_IllegalRequestRejected ==
    [][\A d \in DocIds :
          /\ (Exists(d) /\ docs[d].status = UPLOADED)
                => docs'[d].status \notin {COMPLETED, FAILED}
          /\ (Exists(d) /\ docs[d].status \in {PROCESSING, COMPLETED, FAILED})
                => docs'[d].status # UPLOADED]_vars

\* C3: processing_started_time, once set, keeps its value: a later delivery
\* of the stage-1 job that sets processing again does not overwrite it.
C3_StartTimeKept ==
    [][\A d \in DocIds :
          (Exists(d) /\ docs[d].processing_started_time # Null)
              => docs'[d].processing_started_time
                     = docs[d].processing_started_time]_vars

\* C4: in every state and for every document the timestamps that are present
\* are ordered: upload_time <= processing_started_time
\* <= processing_completed_time.
C4_TimestampsOrdered ==
    \A d \in DocIds :
        Exists(d) =>
            /\ \A s \in docs[d].processing_started_time :
                   docs[d].upload_time <= s
            /\ \A c \in docs[d].processing_completed_time :
                   docs[d].upload_time <= c
            /\ \A s \in docs[d].processing_started_time :
                   \A c \in docs[d].processing_completed_time : s <= c

\* C5: in every state a failed document has a non-empty error_message and a
\* processing_completed_time, and a completed document has a
\* processing_completed_time.
C5_TerminalFieldsSet ==
    \A d \in DocIds :
        /\ (Exists(d) /\ docs[d].status = FAILED) =>
               /\ docs[d].error_message # Null
               /\ \A m \in docs[d].error_message : m # ""
               /\ docs[d].processing_completed_time # Null
        /\ (Exists(d) /\ docs[d].status = COMPLETED) =>
               docs[d].processing_completed_time # Null

\* a document completed by stage 2 beside a document failed by a stage
C5_Witness ==
    \E d, e \in DocIds :
        /\ Exists(d) /\ docs[d].status = COMPLETED
        /\ embQ[d].status = "finished"
        /\ Exists(e) /\ docs[e].status = FAILED
        /\ procQ[e].status = "failed"

\* C6: in every state the chunk_index values of a document's chunk rows are
\* exactly 0..N-1, each once, after any number of stage-1 deliveries.
C6_ChunkIndexContiguous ==
    \A d \in DocIds :
        LET R == Rows(chunks, d) IN
        /\ \A r, q \in R : r.chunk_index = q.chunk_index => r = q
        /\ {r.chunk_index : r \in R} = 0..(Cardinality(R) - 1)

RowContent(R) ==
    {[chunk_index |-> r.chunk_index, chunk_text |-> r.chunk_text] : r \in R}

\* C7: stage 1 is idempotent on the Chunk Store: once an execution has
\* persisted a document's chunk rows, a further execution of the same job
\* leaves the same rows (as many rows, with the same index and text): it
\* replaces, it does not add.
C7_Stage1Idempotent ==
    [][\A d \in DocIds :
          Rows(chunks, d) # {} =>
              /\ Cardinality(Rows(chunks', d)) = Cardinality(Rows(chunks, d))
              /\ RowContent(Rows(chunks', d)) = RowContent(Rows(chunks, d))]_vars

\* C8: in every state the vector index holds at most one record for a
\* (document_id, chunk_id) pair, however often the embedding job has run.
C8_OneVectorPerChunk ==
    \A v, w \in vectors :
        (v.document_id = w.document_id /\ v.chunk_id = w.chunk_id) => v = w

Stage1Ran(d) == procQ[d].status = "queued" /\ procQ'[d].status # "queued"

EmbeddingJobCreated(d) ==
    /\ embQ'[d].status = "queued"
    /\ IF embQ[d] = NoJob THEN TRUE
       ELSE embQ[d].job_data # embQ'[d].job_data

\* C9: a stage-1 execution that raises leaves the embedding queue as it was,
\* and an embedding job is created only in a step in which the document's
\* stage-1 job goes from queued to finished.
C9_NoEnqueueOnFailure ==
    [][\A d \in DocIds :
          /\ (Stage1Ran(d) /\ procQ'[d].status = "failed") => embQ' = embQ
          /\ EmbeddingJobCreated(d) =>
                 (Stage1Ran(d) /\ procQ'[d].status = "finished")]_vars

\* stage 1 raised at the enqueue, after the chunk rows were saved
C9_Witness ==
    \E d \in DocIds :
        /\ procQ[d].status = "failed"
        /\ Rows(chunks, d) # {}
        /\ embQ[d] = NoJob
        /\ docs[d].error_message = Some("Processing failed: redis")

BadFile(job_data) ==
    \/ job_data.file_type \notin {"pdf", "docx"}
    \/ files[job_data.file_path] = Missing
    \/ files[job_data.file_path].kind = "corrupt"

Stage2Ran(d) == embQ[d].status = "queued" /\ embQ'[d].status # "queued"

FailedWithText(row) ==
    /\ row.status = FAILED
    /\ row.error_message # Null
    /\ \A m \in row.error_message : m # ""

C13_ChunksAllOrNothing ==
    [][\A d \in DocIds :
          Stage1Ran(d) =>
              LET added == chunks' \ chunks
                  N == files[procQ[d].job_data.file_path].n
              IN /\ chunks \subseteq chunks'
                 /\ \/ added = {}
                    \/ /\ Cardinality(added) = N
                       /\ {r.chunk_index : r \in added} = 0..(N - 1)
                       /\ \A r \in added : r.document_id = d
                 /\ docs'[d].error_message
                        = Some("Processing failed: db_chunks")
                            => chunks' = chunks]_vars

\* the save of a two-chunk list raised and left no row, beside a document
\* whose two chunks were both saved
C13_Witness ==
    \E d, e \in DocIds :
        /\ procQ[d].status = "failed"
        /\ docs[d].error_message = Some("Processing failed: db_chunks")
        /\ files[PathOf(d)].n = 2
        /\ Rows(chunks, d) = {}
        /\ Cardinality(Rows(chunks, e)) = 2
        /\ procQ[e].status = "finished"

VectorsOf(V, d) == {v \in V : v.document_id = d}

InvalidUpload(upload) ==
    \/ upload.ext \notin ALLOWED_EXTENSIONS
    \/ upload.size = 0
    \/ upload.size > MAX_FILE_SIZE

\* C15: an upload with an unsupported extension, no bytes or more bytes than
\* the maximum is answered 400 or 413, and the request leaves the Document
\* Store, the processing queue and the upload directory as they were.
C15_InvalidUploadRejected ==
    [][(response' # response /\ InvalidUpload(response'.upload)) =>
           /\ response'.status \in {400, 413}
           /\ docs' = docs
           /\ procQ' = procQ
           /\ files' = files]_vars

\* an oversized PDF was refused after another upload had been accepted
C15_Witness ==
    /\ response.status = 413
    /\ response.upload.ext = ".pdf"
    /\ \E d, e \in DocIds :
           /\ Exists(d) /\ procQ[d].status = "queued"
           /\ ~Exists(e) /\ procQ[e] = NoJob

\* C16: in every state a job on the processing queue for document d comes
\* with a Document record for d, and its payload carries that record's
\* document_id, file_path and file_type.
C16_JobHasRecord ==
    \A d \in DocIds :
        procQ[d] # NoJob =>
            /\ Exists(d)
            /\ procQ[d].job_data.document_id = docs[d].document_id
            /\ procQ[d].job_data.file_path = docs[d].file_path
            /\ procQ[d].job_data.file_type = docs[d].file_type

\* the job of an uploaded DOCX waits on the queue beside its record
C16_Witness ==
    \E d \in DocIds :
        /\ procQ[d].status = "queued"
        /\ docs[d].status = UPLOADED
        /\ docs[d].file_type = "docx"
        /\ procQ[d].job_data.file_type = "docx"

\* C17: a stage-1 execution that succeeds, a retry after a failed attempt
\* included, leaves the document in processing with
\* processing_started_time set and processing_completed_time unset (the
\* state the record keeps until a stage-2 execution runs on it).
C17_ProcessingAfterStage1 ==
    [][\A d \in DocIds :
          (Stage1Ran(d) /\ procQ'[d].status = "finished") =>
              /\ docs'[d].status = PROCESSING
              /\ docs'[d].processing_started_time # Null
              /\ docs'[d].processing_completed_time = Null]_vars

\* C12: the Document Store and the Job Queue agree on every document: when
\* the latest job of a document is in the failed state, a worker crash
\* included, the document is failed, and when the document's stage-2 job is
\* finished the document is completed.
C12_StoreAgreesWithQueue ==
    \A d \in DocIds :
        /\ (embQ[d] = NoJob /\ procQ[d].status = "failed")
               => docs[d].status = FAILED
        /\ embQ[d].status = "failed" => docs[d].status = FAILED
        /\ embQ[d].status = "finished" => docs[d].status = COMPLETED

Abandoned(job) == job.status = "failed" /\ "abandoned" \in DOMAIN job

Visible(job) == job.status \in {"queued", "started"}

\* C18: a job whose worker crashed between taking it and ending it becomes
\* visible on its queue again and is delivered to a worker again: it does
\* not stay in the failed state for ever.
C18_CrashedJobRedelivered ==
    \A d \in DocIds :
        /\ Abandoned(procQ[d]) ~> Visible(procQ[d])
        /\ Abandoned(embQ[d]) ~> Visible(embQ[d])

\* C19: between the first and the last status write of one stage execution
\* on a document no other execution writes that document's status: an
\* execution that makes a second status write finds that nobody else has
\* written since its first.
C19_NoInterleavedStatusWrites ==
    [][\A w \in Workers :
          (/\ run[w] # Idle
           /\ run[w].pc = "except"
           /\ run[w].wrote
           /\ run'[w] = Idle
           /\ clock' # clock) => ~run[w].dirty]_vars

\* C20: an execution that was still running when its job was delivered
\* again does not, by a later step, move a completed document back to
\* processing or to failed, and adds no chunk row and no vector record for
\* it.
C20_LateFinishHarmless ==
    [][\A w \in Workers :
          (/\ run[w] # Idle
           /\ run[w].late
           /\ run'[w].pc # run[w].pc
           /\ docs[run[w].job_data.document_id].status = COMPLETED) =>
              /\ docs'[run[w].job_data.document_id].status = COMPLETED
              /\ chunks' = chunks
              /\ vectors' = vectors]_vars

----------------------------------------------------------------------------
(* The chunker *)

\* The last chunk_text call returned a chunk list.
Returned == chunker.calls > 0 /\ ~chunker.result.raised

\* C21: a chunk_text call that returns N >= 1 chunks numbers them 0..N-1 in
\* the order of the list, with no gap, and the chunk_size of each chunk is
\* the length of its chunk_text.
C21_IndexedFromZero ==
    Returned =>
        LET chunk_list == chunker.result.chunk_list IN
        /\ Len(chunk_list) >= 1
        /\ \A i \in 1..Len(chunk_list) :
               /\ chunk_list[i].chunk_index = i - 1
               /\ chunk_list[i].chunk_size = Len(chunk_list[i].chunk_text)

\* A call that returned three chunks.
C21_Witness == Returned /\ Len(chunker.result.chunk_list) = 3

\* The caller named both sizes, with 0 <= overlap < max_size.
ValidSizes ==
    /\ chunker.state # "none"
    /\ \E max_size \in 1..MaxSize, overlap \in 0..MaxSize :
           /\ overlap < max_size
           /\ chunker.args = [chunk_size |-> Some(max_size),
                              chunk_overlap |-> Some(overlap)]

\* C22: with overlap < max_size, chunking a text that is not empty never
\* raises, neither when the chunker is constructed nor in chunk_text, and
\* every chunk is between 1 and max_size characters long.
C22_ChunkingTotal ==
    ValidSizes =>
        /\ chunker.state = "built"
        /\ (chunker.calls > 0 /\ chunker.text # <<>>) =>
               /\ ~chunker.result.raised
               /\ \A i \in 1..Len(chunker.result.chunk_list) :
                      chunker.result.chunk_list[i].chunk_size
                          \in 1..chunker.self.chunk_size

OverlapNotBelowSize ==
    /\ chunker.state # "none"
    /\ \E max_size \in 1..MaxSize, overlap \in 1..MaxSize :
           /\ overlap >= max_size
           /\ chunker.args = [chunk_size |-> Some(max_size),
                              chunk_overlap |-> Some(overlap)]

\* C24: a configuration with overlap >= max_size, overlap = max_size
\* included, is rejected: no chunker is constructed with it and no chunks
\* are produced with it.
C24_OverlapRejected ==
    OverlapNotBelowSize =>
        /\ chunker.state = "rejected"
        /\ chunker.calls = 0

\* chunk_text raises on every text that is empty or all whitespace, whatever
\* the sizes of the chunker.
BlankTextRejected ==
    \A chunk_size \in SizeArgs, chunk_overlap \in SizeArgs :
        LET self == SemanticChunker(chunk_size, chunk_overlap) IN
        ~self.raised =>
            \A text \in Texts :
                strip(text) = <<>> =>
                    SemanticChunker_chunk_text(self, text).raised

\* The file of the stage-1 job of d is readable and holds no text.
BlankFile(d) ==
    /\ procQ[d].status = "queued"
    /\ files[procQ[d].job_data.file_path].kind = "blank"

----------------------------------------------------------------------------
(* The query service *)

Answered(op) == reply.op = op /\ reply.status = 200

\* C26: a query with a document_id filter returns only chunks whose
\* document_id is the filter value, likewise for file_type, and at most
\* top_k results, whatever the vector index holds.
C26_FilterRespected ==
    Answered("query") =>
        /\ Cardinality(reply.body) <= reply.request.top_k
        /\ reply.request.document_id # Null =>
               \A result \in reply.body :
                   result.document_id \in reply.request.document_id
        /\ reply.request.file_type # Null =>
               \A result \in reply.body :
                   result.file_type \in reply.request.file_type

\* C27: top_k is validated before any search: a query with top_k below 1
\* or above 50 is rejected without a call to the embedding provider or to
\* the vector index, and every query that reaches the index has
\* 1 <= top_k <= 50.
C27_TopKValidated ==
    reply.op = "query" =>
        /\ reply.request.top_k \notin 1..50 =>
               /\ reply.status = 422
               /\ reply.called = {}
        /\ reply.called # {} => reply.request.top_k \in 1..50
        /\ Answered("query") => reply.k = reply.request.top_k

\* A query with top_k = 51 that was turned away.
C27_Witness ==
    /\ reply.op = "query"
    /\ reply.request.q # ""
    /\ reply.request.top_k = 51
    /\ reply.status = 422
    /\ vectors # {}

\* C28: list_documents and get_document_details answer from the Document
\* Store and the Chunk Store alone: they go to no other service, the chunk
\* counts and chunk rows of the reply are those of the Chunk Store, and
\* neither the vector index nor any document row or chunk row changes.
C28_ReadsOnlyStores ==
    [][reply'.op \in {"list", "detail"} =>
          /\ reply'.called = {}
          /\ docs' = docs /\ chunks' = chunks /\ vectors' = vectors
          /\ (reply'.op = "list" /\ reply'.status = 200) =>
                 \A info \in reply'.body :
                     /\ docs[info.document_id].status = info.status
                     /\ info.num_chunks =
                            Cardinality(Rows(chunks, info.document_id))
          /\ (reply'.op = "detail" /\ reply'.status = 200) =>
                 /\ reply'.body.document = docs[reply'.request]
                 /\ reply'.body.chunks = Rows(chunks, reply'.request)]_vars

\* A listing that counts chunk rows of a document the index holds no object
\* of.
C28_Witness ==
    /\ Answered("list")
    /\ \E info \in reply.body :
           /\ info.num_chunks > 0
           /\ \A o \in vectors : o.document_id # info.document_id
    /\ vectors # {}

----------------------------------------------------------------------------
(* The Chunk Store under the whole service *)

\* C29: a chunk row, once persisted, stays as it is: no step of the
\* service, be it a stage-1 execution or its retry, stage 2, a query, a
\* listing or a detail read, changes its chunk_index, chunk_text,
\* chunk_size or document_id or removes it.  (A row that changed would no
\* longer be in the table as the row it was.)
C29_ChunkRowsKept ==
    [][\A row \in chunks :
          \E kept \in chunks' :
              /\ kept.chunk_id = row.chunk_id
              /\ kept.document_id = row.document_id
              /\ kept.chunk_index = row.chunk_index
              /\ kept.chunk_text = row.chunk_text
              /\ kept.chunk_size = row.chunk_size]_vars

\* Rows of two stage-1 executions of one document side by side, after
\* stage 2 has written vectors and a client has been answered.
C29_Witness ==
    /\ \E row \in chunks, other \in chunks :
           /\ row.document_id = other.document_id
           /\ row.chunk_index = other.chunk_index
           /\ row.chunk_id # other.chunk_id
    /\ vectors # {}
    /\ reply.op # "none"

----------------------------------------------------------------------------
(* The embedding job of stage 1 *)

\* The chunk records of the embedding job of d, as a set.
JobChunks(Q, d) ==
    {Q[d].job_data.chunks[i] : i \in 1..Len(Q[d].job_data.chunks)}

\* C30: the embedding job that a successful stage-1 execution enqueues
\* carries exactly the chunk records this execution persisted, with the
\* same chunk_id, document_id, chunk_index, chunk_text and chunk_size, in
\* the order of their index; and whatever embedding job exists, each of its
\* chunks is a row of the Chunk Store.
C30_JobCarriesPersistedChunks ==
    [][\A d \in DocIds :
          /\ (Stage1Ran(d) /\ procQ'[d].status = "finished") =>
                 /\ embQ'[d].status = "queued"
                 /\ JobChunks(embQ', d) = chunks' \ chunks
                 /\ \A i \in 1..Len(embQ'[d].job_data.chunks) :
                        /\ embQ'[d].job_data.chunks[i].chunk_index = i - 1
                        /\ embQ'[d].job_data.chunks[i].document_id = d
          /\ embQ'[d] # NoJob => JobChunks(embQ', d) \subseteq chunks']_vars

\* An embedding job of two chunks, queued by a stage-1 execution that
\* finished.
C30_Witness ==
    \E d \in DocIds :
        /\ procQ[d].status = "finished"
        /\ embQ[d].status = "queued"
        /\ Len(embQ[d].job_data.chunks) = 2
        /\ JobChunks(embQ, d) \subseteq chunks

----------------------------------------------------------------------------
(* The cascade of the chunker *)

\* What is left of a split: one step per thing still to do, and for a text
\* still to split, two steps per character and separator still to try.
RECURSIVE WorkLeft(_)
WorkLeft(work) ==
    IF work = <<>> THEN 0
    ELSE LET top == Head(work) IN
         (IF top.kind = "ready" THEN 1
          ELSE 1 + 2 * Len(top.text) * (Len(top.separators) + 1))
         + WorkLeft(Tail(work))

SplitLeft ==
    IF chunker.state = "splitting" THEN 1 + WorkLeft(chunker.result.work)
    ELSE 0

\* C31: the cascade of separators ends: every step of a split that chunk_text
\* has started, for any text and any sizes the constructor accepts, leaves
\* strictly less to do, so the steps taken and the steps left stay within
\* the bound set by the length of the text; the split never goes deeper than
\* single characters (the last of the separators), and what it returns is
\* the finite chunk sequence of the splitter.
C31_CascadeTerminates ==
    /\ [][chunker.state = "splitting" => SplitLeft' < SplitLeft]_vars
    /\ [](chunker.state \in {"splitting", "split"} =>
             /\ chunker.result.deepest <= Len(Separators)
             /\ chunker.result.steps + SplitLeft
                    <= 2 + 2 * Len(chunker.text) * (Len(Separators) + 1))
    /\ [](chunker.state = "split" =>
             /\ chunker.result.chunk_list =
                    split_text(chunker.self, chunker.text, Separators)
             /\ Len(chunker.result.chunk_list) <= Len(chunker.text))

\* A split that went down to single characters and returned several chunks.
C31_Witness ==
    /\ chunker.state = "split"
    /\ chunker.result.deepest = Len(Separators)
    /\ Len(chunker.result.chunk_list) >= 3

----------------------------------------------------------------------------
(* The end of every upload *)

\* C32: every document that has a record reaches completed or failed: with
\* workers that keep running on both queues, no recorded document stays
\* uploaded or processing for ever, also when ingestion could not enqueue
\* the processing job or stage 1 could not enqueue the embedding job.
C32_ReachesCompletedOrFailed ==
    \A d \in DocIds :
        (docs[d] # NoDoc) ~> (docs[d].status \in {COMPLETED, FAILED})

\* C33: a request that ingest_document answers with an error leaves the
\* Document Store as it was: no record of the upload exists afterwards,
\* whichever step failed (validation, file write, INSERT or enqueue).
C33_ErrorLeavesNoRecord ==
    [][response'.status \notin {0, 201} => docs' = docs]_vars

\* C34: stage 1 is all-or-nothing: an execution adds chunk rows of its
\* document to the Chunk Store exactly when it also enqueues the embedding
\* job, and an execution that ends with status failed has added no row.
C34_Stage1AllOrNothing ==
    [][\A d \in DocIds :
          Stage1Ran(d) =>
              /\ (Rows(chunks', d) # Rows(chunks, d)) <=> (embQ' # embQ)
              /\ docs'[d].status = FAILED =>
                     Rows(chunks', d) = Rows(chunks, d)]_vars

----------------------------------------------------------------------------
(* The statuses and what the stores hold *)

\* C35: a document whose status is uploaded has no chunk row, no embedding
\* job and no vector object; and no step takes a document that has left
\* uploaded back to it.
C35_UploadedHasNothing ==
    /\ [](\A d \in DocIds :
             docs[d].status = UPLOADED =>
                 /\ Rows(chunks, d) = {}
                 /\ embQ[d] = NoJob
                 /\ VectorsOf(vectors, d) = {})
    /\ [][\A d \in DocIds :
             docs[d].status \notin {NoDoc.status, UPLOADED} =>
                 docs'[d].status # UPLOADED]_vars

\* One document still uploaded next to one with chunk rows and vectors.
C35_Witness ==
    \E d \in DocIds, other \in DocIds :
        /\ docs[d].status = UPLOADED
        /\ procQ[d].status = "queued"
        /\ Rows(chunks, other) # {}
        /\ VectorsOf(vectors, other) # {}

\* C36: error_message is set exactly when the status is failed: a document
\* that is uploaded, processing or completed has no error text, also after
\* an earlier attempt on it failed, and a failed document has one.
C36_ErrorOnlyWhenFailed ==
    \A d \in DocIds :
        docs[d] # NoDoc =>
            (docs[d].error_message # Null <=> docs[d].status = FAILED)

\* A document that failed in stage 1 and, after its job was put back on the
\* queue, went on to completed.
C36_Witness ==
    \E d \in DocIds :
        /\ <<PROCESSING, FAILED>> \in edges[d]
        /\ docs[d].status = COMPLETED
        /\ docs[d].error_message = Null

----------------------------------------------------------------------------
(* The identity of the vector objects *)

SameIdentity(object, chunk) ==
    /\ object.chunk_id = chunk.chunk_id
    /\ object.document_id = chunk.document_id
    /\ object.chunk_index = chunk.chunk_index

\* C38: every vector object of the index has the chunk_id, document_id and
\* chunk_index of a row of the Chunk Store, and the objects that a stage-2
\* execution writes have the document_id of its job and the identity of the
\* job's chunks: the metadata string of a chunk changes none of the three.
C38_VectorsReferToChunkRows ==
    /\ [](\A object \in vectors : \E row \in chunks : SameIdentity(object, row))
    /\ [][\A d \in DocIds :
             Stage2Ran(d) =>
                 \A object \in vectors' \ vectors :
                     /\ object.document_id = embQ[d].job_data.document_id
                     /\ \E chunk \in JobChunks(embQ, d) :
                            /\ SameIdentity(object, chunk)
                            /\ chunk.metadata.mapping.document_id
                                   = object.document_id]_vars

\* Stage 2 has written the objects of a job of two chunks, each with
\* metadata that names the document.
C38_Witness ==
    \E d \in DocIds :
        /\ embQ[d].status = "finished"
        /\ Cardinality(VectorsOf(vectors, d)) = 2
        /\ \A chunk \in JobChunks(embQ, d) :
               "document_id" \in DOMAIN chunk.metadata.mapping

----------------------------------------------------------------------------
(* One document at a time *)

\* C37: a stage-1 or stage-2 execution for a document, whether it returns
\* or raises, leaves every other document as it was: its record (status,
\* timestamps, error_message), its chunk rows and its vector objects.
C37_StagesIsolated ==
    [][\A d \in DocIds :
          (Stage1Ran(d) \/ Stage2Ran(d)) =>
              \A other \in DocIds \ {d} :
                  /\ docs'[other] = docs[other]
                  /\ Rows(chunks', other) = Rows(chunks, other)
                  /\ VectorsOf(vectors', other)
                         = VectorsOf(vectors, other)]_vars

\* Both stages have run for one document, one of them raising, next to
\* another document that has its chunk rows.
C37_Witness ==
    \E d \in DocIds, other \in DocIds :
        /\ other # d
        /\ <<PROCESSING, FAILED>> \in edges[d]
        /\ embQ[d].status \in {"finished", "failed"}
        /\ VectorsOf(vectors, d) # {}
        /\ docs[other].status = PROCESSING
        /\ Rows(chunks, other) # {}

----------------------------------------------------------------------------
(* The sizes of the chunker *)

\* C39: a chunker constructed with explicit chunk_size s and chunk_overlap
\* o, 0 <= o < s, o = 0 included, is built and chunks with exactly s and o:
\* a default stands in only for an argument that was not given.
C39_ExplicitSizesUsed ==
    \A s \in 1..MaxSize, o \in 0..MaxSize :
        (/\ o < s
         /\ chunker.state # "none"
         /\ chunker.args = [chunk_size |-> Some(s), chunk_overlap |-> Some(o)])
        => /\ chunker.state = "built"
           /\ chunker.self.chunk_size = s
           /\ chunker.self.chunk_overlap = o

====
